---- MODULE Spec2Model ----
(***************************************************************************)
(* A model of pkger's build orchestration core:                            *)
(*   - the script runner (pkger-core/src/build/scripts.rs): execute_scripts *)
(*     and the run_script! macro it expands three times;                    *)
(*   - the image state store (pkger-core/src/image/state.rs): ImagesState   *)
(*     with try_from_path, update and save over a file system, build tasks  *)
(*     that share it, and ImageState::new;                                  *)
(*   - the recipe metadata (src/recipe/metadata.rs) and the RPM assembler   *)
(*     build_rpm (src/job/build/rpm.rs);                                    *)
(*   - the log format filter FmtFilter (src/fmt.rs).                        *)
(***************************************************************************)
EXTENDS Integers, Sequences, FiniteSets, TLC

\* The longest list of steps a script phase holds in the model.
MaxSteps == 2

VARIABLES
    \* ---- script runner ----
    target,     \* ctx.build_ctx.target: the image and build target of the job
    spc,        \* where execute_scripts is: "start", a phase, "done" (Ok), "failed" (Err)
    scripts,    \* per phase: "unread", "none" (the recipe has no such script) or "run"
    nsteps,     \* $script.steps.len() of the phase being run
    idx,        \* position of the for loop in $script.steps
    last,       \* the step the loop handled most recently and what it did with it
    log,        \* every checked_exec call made so far, in order
    inputs,     \* the recipes looked at: the steps, working dirs, shells and cmds they hold
    decl,       \* working_dir and shell the script of the current phase declares
    opts,       \* the ExecOpts builder of the current run_script!
    \* ---- image state store ----
    fs,         \* the file system: what each path holds
    store,      \* the ImagesState value the program holds
    ret,        \* the operation that returned most recently and its result, or Running
    writing,    \* the fs::write that save is in the middle of, if any
    pendingUpd, \* the update made by the operation just before this one, if any
    lastSaved,  \* the ImagesState saved by the operation just before this one, if any
    \* ---- concurrent build tasks sharing the store ----
    tasks,      \* per task: where it is, its RecipeTarget and the ImageState it built
    lastWrite,  \* per RecipeTarget: the task and state of the latest update, if any
    baseImages, \* the images of the store before any task updated it
    \* ---- recipe metadata ----
    md,         \* a MetadataRep, the Metadata made of it and what was derived from it
    \* ---- package assembler ----
    rpm,        \* build_rpm: its inputs, where it is, what it did and returned
    \* ---- image state ----
    img,        \* ImageState::new: its arguments, where it is, what it called and returned
    \* ---- log format filter ----
    fmt         \* FmtFilter::from: the filter string and the FmtFilter made of it, if any

scriptVars == <<target, spc, scripts, nsteps, idx, last, log, inputs, decl, opts>>
storeVars == <<fs, store, ret, writing, pendingUpd, lastSaved>>
taskVars == <<tasks, lastWrite, baseImages>>
vars == <<target, spc, scripts, nsteps, idx, last, log, inputs, decl, opts,
          fs, store, ret, writing, pendingUpd, lastSaved,
          tasks, lastWrite, baseImages, md, rpm, img, fmt>>

\* What the actions of one component leave alone.
notScripts == <<storeVars, taskVars, md, rpm, img, fmt>>
notStoreNorTasks == <<scriptVars, md, rpm, img, fmt>>
notStore == <<scriptVars, taskVars, md, rpm, img, fmt>>

(***************************************************************************)
(* Script runner                                                           *)
(***************************************************************************)

Images == {"centos", "ubuntu"}
BuildTargets == {"rpm", "deb", "gzip"}
Phases == {"configure", "build", "install"}

\* Position of a phase in execute_scripts.
PhaseOrd(p) == CASE p = "configure" -> 1 [] p = "build" -> 2 [] p = "install" -> 3 [] OTHER -> 0

NoTarget == "none"
NoImages == [some |-> FALSE, list |-> {}]

\* A step of a script: Option<Vec<String>> images and the build-target filter.
Steps == [images : {NoImages} \cup {[some |-> TRUE, list |-> l] : l \in SUBSET Images},
          filter : BuildTargets \cup {NoTarget}]

Targets == [image : Images, build_target : BuildTargets]

\* Command::has_target_specified
HasTargetSpecified(step) == step.filter # NoTarget

\* Command::should_run_on
ShouldRunOn(step, bt) == step.filter = NoTarget \/ step.filter = bt

ExcludedByImageFilterAlways(step, t) ==
    /\ step.images.some
    /\ t.image \notin step.images.list

ExcludedByImageFilterWithTarget(step, t) ==
    /\ step.images.some
    /\ t.image \notin step.images.list
    /\ HasTargetSpecified(step)

ExcludedByImageFilterInverted(step, t) ==
    /\ step.images.some
    /\ t.image \in step.images.list
    /\ ~HasTargetSpecified(step)

\* The first `continue` of the loop: the image filter.
ExcludedByImageFilter(step, t) ==
    /\ step.images.some
    /\ t.image \notin step.images.list
    /\ ~HasTargetSpecified(step)

\* Whether the loop body reaches checked_exec for this step.
StepRuns(step, t) ==
    /\ ~ExcludedByImageFilter(step, t)
    /\ ShouldRunOn(step, t.build_target)

None == [some |-> FALSE, v |-> ""]
Some(x) == [some |-> TRUE, v |-> x]

\* Texts are sequences of characters (one-character strings).
BldVar == <<"$", "P", "K", "G", "E", "R", "_", "B", "L", "D", "_", "D", "I", "R">>
OutVar == <<"$", "P", "K", "G", "E", "R", "_", "O", "U", "T", "_", "D", "I", "R">>

\* ctx.container_bld_dir and ctx.container_out_dir.
ContainerBldDir == <<"/", "t", "m", "p", "/", "b">>
ContainerOutDir == <<"/", "t", "m", "p", "/", "o">>

NoDir == [some |-> FALSE, toks |-> <<>>]
SomeDir(toks) == [some |-> TRUE, toks |-> toks]

\* The working_dir values of the scripts, each cut into the pieces it is made of.
WorkingDirs ==
    {NoDir,
     SomeDir(<<BldVar, <<"/", "s">>>>),
     SomeDir(<<OutVar, <<"/">>, BldVar>>),
     SomeDir(<<<<"/", "s">>>>),
     SomeDir(<<BldVar, BldVar, <<"/">>, OutVar, <<":">>, OutVar>>),
     SomeDir(<<<<"$">>, BldVar, <<"X">>>>),
     SomeDir(<<<<"$", "P", "K", "G", "E", "R", "_", "B", "L", "D", "_", "D", "I">>>>)}

Shells == {None, Some("/bin/bash")}
Cmds == {"make", "ls"}

\* A recipe without working_dir and shell, any steps; and recipes with them.
PlainInputs == [steps |-> Steps, dirs |-> {NoDir}, shells |-> {None}, cmds |-> {"make"}]
OptsInputs ==
    [steps |-> {[images |-> NoImages, filter |-> NoTarget],
                [images |-> NoImages, filter |-> "deb"]},
     dirs |-> WorkingDirs, shells |-> Shells, cmds |-> Cmds]

RECURSIVE JoinEmpty(_)
\* [..].join(""): the pieces one after the other.
JoinEmpty(chunks) ==
    IF chunks = <<>> THEN <<>> ELSE Head(chunks) \o JoinEmpty(Tail(chunks))

\* Replaces the first occurrence only.
ReplaceFirst(text, from, to) ==
    IF \E i \in 1..(Len(text) - Len(from) + 1) : SubSeq(text, i, i + Len(from) - 1) = from
    THEN LET i == CHOOSE i \in 1..(Len(text) - Len(from) + 1) :
                     /\ SubSeq(text, i, i + Len(from) - 1) = from
                     /\ \A j \in 1..(i - 1) : SubSeq(text, j, j + Len(from) - 1) # from
         IN SubSeq(text, 1, i - 1) \o to \o SubSeq(text, i + Len(from), Len(text))
    ELSE text

RECURSIVE Replace(_, _, _)
\* str::replace: every non-overlapping occurrence of `from`, from the left.
Replace(text, from, to) ==
    IF Len(text) < Len(from) THEN text
    ELSE IF SubSeq(text, 1, Len(from)) = from
         THEN to \o Replace(SubSeq(text, Len(from) + 1, Len(text)), from, to)
         ELSE <<Head(text)>> \o Replace(Tail(text), from, to)

DefaultDirBld(p) == ContainerBldDir

\* The $dir argument execute_scripts gives run_script! for each phase.
DefaultDir(p) == IF p = "install" THEN ContainerOutDir ELSE ContainerBldDir

\* if let Some(dir) = &$script.working_dir { .. } else { .. }
WorkingDir(p, d) ==
    IF d.some
    THEN Replace(Replace(JoinEmpty(d.toks), BldVar, ContainerBldDir), OutVar, ContainerOutDir)
    ELSE DefaultDir(p)

PhaseShellKept(sh) == IF sh.some THEN sh ELSE opts.shell

\* if let Some(shell) = &$script.shell { opts = opts.shell(..) }, on ExecOpts::default()
PhaseShell(sh) == sh

NoDecl == [phase |-> "none", working_dir |-> NoDir, shell |-> None]
NoOpts == [dir |-> <<>>, shell |-> None]
NoExec == [cmd |-> "", dir |-> <<>>, shell |-> None]

NoStep == [phase |-> "none", idx |-> 0, step |-> [images |-> NoImages, filter |-> NoTarget],
           cmd |-> "", act |-> "none", ok |-> TRUE, exec |-> NoExec]

InitScripts ==
    /\ target \in Targets
    /\ spc = "start"
    /\ scripts = [configure |-> "unread", build |-> "unread", install |-> "unread"]
    /\ nsteps = 0
    /\ idx = 0
    /\ last = NoStep
    /\ log = <<>>
    /\ inputs = PlainInputs
    /\ decl = NoDecl
    /\ opts = NoOpts

\* A job whose recipe has scripts with working_dir and shell.
InitOpts ==
    /\ target = [image |-> "centos", build_target |-> "rpm"]
    /\ spc = "start"
    /\ scripts = [configure |-> "unread", build |-> "unread", install |-> "unread"]
    /\ nsteps = 0
    /\ idx = 0
    /\ last = NoStep
    /\ log = <<>>
    /\ inputs = OptsInputs
    /\ decl = NoDecl
    /\ opts = NoOpts

\* run_script! before its loop: the ExecOpts of the phase.
PhaseOpts(p) ==
    \E d \in inputs.dirs, sh \in inputs.shells :
        /\ decl' = [phase |-> p, working_dir |-> d, shell |-> sh]
        /\ opts' = [dir |-> WorkingDir(p, d), shell |-> PhaseShell(sh)]

\* run_script! up to its for loop: the phase is entered with its list of steps.
EnterPhase(p, n) ==
    /\ spc' = p
    /\ nsteps' = n
    /\ idx' = 1
    /\ scripts' = [scripts EXCEPT ![p] = "run"]
    /\ PhaseOpts(p)

\* if let Some(config_script) = &recipe.configure_script { run_script!("configure", ..) }
ConfigureSome ==
    /\ spc = "start"
    /\ \E n \in 0..MaxSteps : EnterPhase("configure", n)
    /\ UNCHANGED <<inputs, target, last, log>>
    /\ UNCHANGED notScripts

\* else { info!("no configure steps to run") }, then run_script!("build", ..)
ConfigureNone ==
    /\ spc = "start"
    /\ \E n \in 0..MaxSteps :
        /\ spc' = "build"
        /\ nsteps' = n
        /\ idx' = 1
        /\ scripts' = [scripts EXCEPT !.configure = "none", !.build = "run"]
        /\ PhaseOpts("build")
    /\ UNCHANGED <<inputs, target, last, log>>
    /\ UNCHANGED notScripts

\* The recipe is immutable and the loop reads each step once, so a step's fields
\* are drawn when the loop reaches it (as is a phase's number of steps when the
\* phase is entered).
\* One iteration of the for loop that ends in a `continue`.
StepSkip ==
    /\ spc \in Phases
    /\ idx <= nsteps
    /\ \E step \in inputs.steps, c \in inputs.cmds :
        /\ ~StepRuns(step, target)
        /\ last' = [phase |-> spc, idx |-> idx, step |-> step, cmd |-> c,
                    act |-> "skip", ok |-> TRUE, exec |-> NoExec]
    /\ idx' = idx + 1
    /\ UNCHANGED <<inputs, decl, opts, target, spc, scripts, nsteps, log>>
    /\ UNCHANGED notScripts

\* opts.clone().cmd(&cmd.cmd).build()
ExecOpts(o, c) == [cmd |-> c, dir |-> o.dir, shell |-> o.shell]

AfterExecIgnoresFailure(ok) ==
    idx' = idx + 1 /\ spc' = spc

\* What execute_scripts does once checked_exec(..).await? returned: on Err both
\* `?` (of the loop and of the macro) return the error from execute_scripts.
AfterExec(ok) ==
    IF ok THEN idx' = idx + 1 /\ spc' = spc
    ELSE idx' = idx /\ spc' = "failed"

\* One iteration of the for loop that reaches checked_exec.
StepExec ==
    /\ spc \in Phases
    /\ idx <= nsteps
    /\ \E step \in inputs.steps, c \in inputs.cmds, ok \in BOOLEAN :
        /\ StepRuns(step, target)
        /\ last' = [phase |-> spc, idx |-> idx, step |-> step, cmd |-> c,
                    act |-> "run", ok |-> ok, exec |-> ExecOpts(opts, c)]
        /\ log' = Append(log, [phase |-> spc, idx |-> idx, ok |-> ok])
        /\ AfterExec(ok)
    /\ UNCHANGED <<inputs, decl, opts, target, scripts, nsteps>>
    /\ UNCHANGED notScripts

ConfigureEndSkipsBuild ==
    /\ spc = "configure"
    /\ idx > nsteps
    /\ \E n \in 0..MaxSteps : EnterPhase("install", n)
    /\ UNCHANGED <<inputs, target, last, log>>
    /\ UNCHANGED notScripts

\* The configure loop is over: Ok(()) of the macro, then run_script!("build", ..).
ConfigureEnd ==
    /\ spc = "configure"
    /\ idx > nsteps
    /\ \E n \in 0..MaxSteps : EnterPhase("build", n)
    /\ UNCHANGED <<inputs, target, last, log>>
    /\ UNCHANGED notScripts

\* The build loop is over and the recipe has an install script.
InstallSome ==
    /\ spc = "build"
    /\ idx > nsteps
    /\ \E n \in 0..MaxSteps : EnterPhase("install", n)
    /\ UNCHANGED <<inputs, target, last, log>>
    /\ UNCHANGED notScripts

\* The build loop is over and the recipe has no install script: Ok(()).
InstallNone ==
    /\ spc = "build"
    /\ idx > nsteps
    /\ spc' = "done"
    /\ scripts' = [scripts EXCEPT !.install = "none"]
    /\ UNCHANGED <<inputs, decl, opts, target, nsteps, idx, last, log>>
    /\ UNCHANGED notScripts

\* The install loop is over: Ok(()).
InstallEnd ==
    /\ spc = "install"
    /\ idx > nsteps
    /\ spc' = "done"
    /\ UNCHANGED <<inputs, decl, opts, target, scripts, nsteps, idx, last, log>>
    /\ UNCHANGED notScripts

NextScripts ==
    \/ ConfigureSome
    \/ ConfigureNone
    \/ StepSkip
    \/ StepExec
    \/ ConfigureEnd
    \/ InstallSome
    \/ InstallNone
    \/ InstallEnd


(***************************************************************************)
(* Script runner: properties                                               *)
(***************************************************************************)

\* C1: the phases run in the order configure, build, install: in the sequence of
\* executed commands no command of a later phase precedes one of an earlier phase;
\* execute_scripts returns Ok only after the build phase was run, and it enters the
\* install phase only after it; a recipe without configure and install script, all
\* of whose executed steps succeed, does not return an error; until it returned,
\* execute_scripts can go on.
C1_PhaseOrder ==
    /\ \A i, j \in DOMAIN log :
        i < j => PhaseOrd(log[i].phase) <= PhaseOrd(log[j].phase)
    /\ spc \in {"install", "done"} => scripts.build = "run"
    /\ (\E i \in DOMAIN log : log[i].phase = "install") => scripts.build = "run"
    /\ (/\ scripts.configure = "none"
        /\ scripts.install = "none"
        /\ \A i \in DOMAIN log : log[i].ok) => spc # "failed"
    /\ spc \notin {"done", "failed"} => ENABLED NextScripts

\* A recipe with only a build script, a step of which was executed, returned Ok.
C1_Witness ==
    /\ spc = "done"
    /\ scripts = [configure |-> "none", build |-> "run", install |-> "none"]
    /\ Len(log) >= 1

\* C2: a failed checked_exec is the last command execute_scripts ran, and
\* execute_scripts returned the error; it returns an error only then.
C2_AbortOnFailure ==
    /\ \A i \in DOMAIN log : ~log[i].ok => (i = Len(log) /\ spc = "failed")
    /\ spc = "failed" => (log # <<>> /\ ~log[Len(log)].ok)

\* A build step failed while the phase had steps left and install was still to come.
C2_Witness ==
    /\ spc = "failed"
    /\ log # <<>>
    /\ log[Len(log)].phase = "build"
    /\ idx < nsteps
    /\ scripts.install = "unread"

\* C3: a step with an images allow-list and no build-target filter is executed iff
\* the target's image is in the allow-list.
C3_ImageFilter ==
    (last.act # "none" /\ last.step.images.some /\ last.step.filter = NoTarget)
        => (last.act = "run" <=> target.image \in last.step.images.list)

\* The step restricted to images ["centos"] is skipped in the ubuntu/deb job.
C3_Witness ==
    /\ target = [image |-> "ubuntu", build_target |-> "deb"]
    /\ last.phase = "build"
    /\ last.step = [images |-> [some |-> TRUE, list |-> {"centos"}], filter |-> NoTarget]
    /\ last.act = "skip"

\* C4 as stated: a step with a build-target filter F is executed iff F is the
\* target's build target and its images allow-list, if any, holds the target's image.
C4_TargetAndImageFilter ==
    (last.act # "none" /\ last.step.filter # NoTarget)
        => (last.act = "run" <=>
                /\ last.step.filter = target.build_target
                /\ (last.step.images.some => target.image \in last.step.images.list))

\* C4 as amended: a step with a build-target filter F is executed iff F is the
\* target's build target, whatever its images allow-list holds.
C4_TargetFilterOnly ==
    (last.act # "none" /\ last.step.filter # NoTarget)
        => (last.act = "run" <=> last.step.filter = target.build_target)

\* A step filtered to rpm whose allow-list lacks the target's image ran in an rpm job.
C4_Witness ==
    /\ target = [image |-> "ubuntu", build_target |-> "rpm"]
    /\ last.step = [images |-> [some |-> TRUE, list |-> {"centos"}], filter |-> "rpm"]
    /\ last.act = "run"

\* C5: a step whose images allow-list lacks the target's image and that has a
\* build-target filter is not skipped by the image filter: whether it is executed
\* is decided by the target filter alone, and it is executed when that filter is
\* the target's build target.
C5_TargetOverridesImage ==
    (/\ last.act # "none"
     /\ last.step.images.some
     /\ target.image \notin last.step.images.list
     /\ last.step.filter # NoTarget)
        => (last.act = "run" <=> last.step.filter = target.build_target)

\* An install step for deb with an empty allow-list ran in the centos/deb job.
C5_Witness ==
    /\ target = [image |-> "centos", build_target |-> "deb"]
    /\ last.phase = "install"
    /\ last.step = [images |-> [some |-> TRUE, list |-> {}], filter |-> "deb"]
    /\ last.act = "run"
    /\ last.ok

\* The directory a declared working_dir stands for: its pieces, with each variable
\* replaced by the container directory it names.
Resolved(toks) ==
    JoinEmpty([i \in DOMAIN toks |->
                  IF toks[i] = BldVar THEN ContainerBldDir
                  ELSE IF toks[i] = OutVar THEN ContainerOutDir
                  ELSE toks[i]])

\* C16: a step of a phase that declares a working_dir is executed in that
\* working_dir with every $PKGER_BLD_DIR replaced by container_bld_dir and every
\* $PKGER_OUT_DIR by container_out_dir; without a variable it is unchanged.
C16_WorkingDirResolved ==
    (last.act = "run" /\ last.phase = decl.phase /\ decl.working_dir.some)
        => last.exec.dir = Resolved(decl.working_dir.toks)

\* A step ran in $PKGER_BLD_DIR$PKGER_BLD_DIR/$PKGER_OUT_DIR:$PKGER_OUT_DIR.
C16_Witness ==
    /\ last.act = "run"
    /\ last.phase = decl.phase
    /\ decl.working_dir = SomeDir(<<BldVar, BldVar, <<"/">>, OutVar, <<":">>, OutVar>>)
    /\ last.exec.dir = <<"/", "t", "m", "p", "/", "b", "/", "t", "m", "p", "/", "b", "/",
                         "/", "t", "m", "p", "/", "o", ":", "/", "t", "m", "p", "/", "o">>

\* C18: within a phase the executed steps run in declared order, each after the
\* one before it returned success; each is executed with its own cmd and with the
\* shell its own phase declares (none when the phase declares none) and in the
\* directory resolved for its own phase.
C18_SequentialWithOwnOpts ==
    /\ \A i, j \in DOMAIN log :
          (i < j /\ log[i].phase = log[j].phase) => log[i].idx < log[j].idx
    /\ \A i \in DOMAIN log : i < Len(log) => log[i].ok
    /\ last.act = "run" =>
          /\ log # <<>>
          /\ log[Len(log)] = [phase |-> last.phase, idx |-> last.idx, ok |-> last.ok]
          /\ last.exec.cmd = last.cmd
    /\ (last.act = "run" /\ last.phase = decl.phase) =>
          /\ last.exec.shell = decl.shell
          /\ last.exec.dir = opts.dir
          /\ last.exec.dir = IF decl.working_dir.some THEN Resolved(decl.working_dir.toks)
                             ELSE IF last.phase = "install" THEN ContainerOutDir
                             ELSE ContainerBldDir

\* The second step of an install script that declares neither working_dir nor
\* shell ran ls, after its first step had succeeded.
C18_Witness ==
    /\ last.act = "run"
    /\ last.phase = "install"
    /\ last.idx = 2
    /\ last.cmd = "ls"
    /\ Len(log) >= 3
    /\ log[Len(log) - 1] = [phase |-> "install", idx |-> 1, ok |-> TRUE]
    /\ decl = [phase |-> "install", working_dir |-> NoDir, shell |-> None]
    /\ last.exec = [cmd |-> "ls", dir |-> ContainerOutDir, shell |-> None]

\* C19: a step of a phase that declares no working_dir is executed in
\* container_bld_dir in configure and build and in container_out_dir in install.
C19_DefaultWorkingDir ==
    (last.act = "run" /\ last.phase = decl.phase /\ ~decl.working_dir.some)
        => last.exec.dir = (IF last.phase \in {"configure", "build"} THEN ContainerBldDir
                            ELSE ContainerOutDir)

\* An install step ran in container_out_dir.
C19_Witness ==
    /\ last.act = "run"
    /\ last.phase = "install"
    /\ decl.phase = "install"
    /\ ~decl.working_dir.some
    /\ last.exec.dir = ContainerOutDir
    /\ ContainerOutDir # ContainerBldDir

(***************************************************************************)
(* Image state store                                                       *)
(***************************************************************************)

DEFAULT_STATE_FILE == ".pkger.state"

\* The paths the program is given as state files.
Paths == {DEFAULT_STATE_FILE}

\* The paths of the file system: those, and one a state file can be moved to.
Files == Paths \cup {"moved.state"}

\* RecipeTarget values (the keys of ImagesState.images) and ImageState values.
Keys == {"t1", "t2"}
States == {"s1", "s2"}
NoState == "absent"

\* HashMap<RecipeTarget, ImageState>: a key maps to NoState when it is not in the map.
ImageMaps == [Keys -> States \cup {NoState}]
EmptyImages == [k \in Keys |-> NoState]
KeysOf(images) == {k \in Keys : images[k] # NoState}

\* struct ImagesState { images, state_file }
ImagesState(images, path) == [some |-> TRUE, images |-> images, state_file |-> path]
NoStore == [some |-> FALSE, images |-> EmptyImages, state_file |-> ""]

\* ---- the CBOR encoding of an ImagesState, as a sequence of data items ----

MapHead(n) == [t |-> "map", n |-> n, s |-> ""]
Text(s) == [t |-> "text", n |-> 0, s |-> s]
KeyItem(k) == [t |-> "key", n |-> 0, s |-> k]
ValItem(v) == [t |-> "val", n |-> 0, s |-> v]
Junk == [t |-> "junk", n |-> 0, s |-> ""]

\* The orders in which a HashMap may iterate over its entries.
Orders(images) ==
    {o \in [1..Cardinality(KeysOf(images)) -> KeysOf(images)] :
        \A i, j \in DOMAIN o : o[i] = o[j] => i = j}

\* serde_cbor::to_vec(&self): a map of the two fields; `images` is a map with one
\* key/value pair per entry, in the HashMap's iteration order.
Encode(st, order) ==
    <<MapHead(2), Text("images"), MapHead(Len(order))>>
    \o [i \in 1..(2 * Len(order)) |->
            IF i % 2 = 1 THEN KeyItem(order[(i + 1) \div 2])
            ELSE ValItem(st.images[order[i \div 2]])]
    \o <<Text("state_file"), Text(st.state_file)>>

DecodeErr == [ok |-> FALSE, value |-> NoStore]

\* serde_cbor::from_slice::<ImagesState>(&contents): every item must be there and
\* of the right kind, and nothing may follow the value.
Decode(bytes) ==
    IF Len(bytes) < 5 \/ bytes[3].t # "map" THEN DecodeErr
    ELSE LET n == bytes[3].n
             at(k) == {i \in 1..n : bytes[2 + 2 * i].s = k}
             top(S) == CHOOSE i \in S : \A j \in S : j <= i
         IN IF /\ Len(bytes) = 5 + 2 * n
               /\ bytes[1] = MapHead(2)
               /\ bytes[2] = Text("images")
               /\ \A i \in 1..n : bytes[2 + 2 * i].t = "key" /\ bytes[3 + 2 * i].t = "val"
               /\ bytes[4 + 2 * n] = Text("state_file")
               /\ bytes[5 + 2 * n].t = "text"
            THEN [ok |-> TRUE,
                  value |-> ImagesState(
                      [k \in Keys |->
                          IF at(k) = {} THEN NoState ELSE bytes[3 + 2 * top(at(k))].s],
                      bytes[5 + 2 * n].s)]
            ELSE DecodeErr

\* ---- the file system ----

Absent == [exists |-> FALSE, bytes |-> <<>>]
File(bytes) == [exists |-> TRUE, bytes |-> bytes]

NoUpdate == [some |-> FALSE, key |-> "", state |-> ""]
NotWriting == [active |-> FALSE, path |-> "", old |-> Absent, buf |-> <<>>]

\* What an operation returned: `before` is what its file held when it was called,
\* `upd` the update made just before it, `afterSave` the state saved just before it.
\* `io` tells whether every file system call the operation made succeeded.
Ret(op, path, ok, io, value, before, upd, afterSave) ==
    [op |-> op, path |-> path, ok |-> ok, io |-> io, value |-> value, before |-> before,
     upd |-> upd, afterSave |-> afterSave]
NoRet == Ret("none", "", TRUE, TRUE, NoStore, Absent, NoUpdate, NoStore)
\* An operation is under way and has not returned.
Running == Ret("running", "", TRUE, TRUE, NoStore, Absent, NoUpdate, NoStore)

InitStore ==
    /\ fs \in {[p \in Files |-> IF p \in Paths THEN f[p] ELSE Absent] :
                    f \in [Paths -> {Absent, File(<<Junk>>)}]}
    /\ store = NoStore
    /\ ret = NoRet
    /\ writing = NotWriting
    /\ pendingUpd = NoUpdate
    /\ lastSaved = NoStore

\* ImagesState::default()
Default ==
    /\ ~writing.active
    /\ store' = ImagesState(EmptyImages, DEFAULT_STATE_FILE)
    /\ ret' = Ret("default", "", TRUE, TRUE, store', Absent, NoUpdate, NoStore)
    /\ pendingUpd' = NoUpdate
    /\ lastSaved' = NoStore
    /\ UNCHANGED <<fs, writing>>
    /\ UNCHANGED notStore

CreatedStateNoFile(p, createOk) ==
    IF createOk
    THEN [file |-> Absent, ok |-> TRUE, value |-> ImagesState(EmptyImages, p)]
    ELSE [file |-> Absent, ok |-> FALSE, value |-> NoStore]

\* try_from_path when !state_file.exists(): File::create(..)? and the empty state.
CreatedState(p, createOk) ==
    IF createOk
    THEN [file |-> File(<<>>), ok |-> TRUE, value |-> ImagesState(EmptyImages, p)]
    ELSE [file |-> Absent, ok |-> FALSE, value |-> NoStore]

LoadedStateOrDefault(contents, readOk) ==
    IF readOk /\ Decode(contents).ok THEN Decode(contents)
    ELSE [ok |-> TRUE, value |-> ImagesState(EmptyImages, DEFAULT_STATE_FILE)]

\* try_from_path when the file exists: fs::read(..)? and serde_cbor::from_slice(..)?
LoadedState(contents, readOk) ==
    IF readOk THEN Decode(contents) ELSE DecodeErr

\* ImagesState::try_from_path(p) on a path that holds no file.
TryFromPathMissing(p) ==
    /\ ~writing.active
    /\ ~fs[p].exists
    /\ \E createOk \in BOOLEAN :
        LET r == CreatedState(p, createOk) IN
        /\ fs' = [fs EXCEPT ![p] = r.file]
        /\ store' = IF r.ok THEN r.value ELSE store
        /\ ret' = Ret("try_from_path", p, r.ok, createOk, r.value, fs[p], NoUpdate, lastSaved)
    /\ pendingUpd' = NoUpdate
    /\ lastSaved' = NoStore
    /\ UNCHANGED writing
    /\ UNCHANGED notStore

\* ImagesState::try_from_path(p) on a path that holds a file.
TryFromPathExisting(p) ==
    /\ ~writing.active
    /\ fs[p].exists
    /\ \E readOk \in BOOLEAN :
        LET r == LoadedState(fs[p].bytes, readOk) IN
        /\ store' = IF r.ok THEN r.value ELSE store
        /\ ret' = Ret("try_from_path", p, r.ok, readOk, r.value, fs[p], NoUpdate, lastSaved)
    /\ pendingUpd' = NoUpdate
    /\ lastSaved' = NoStore
    /\ UNCHANGED <<fs, writing>>
    /\ UNCHANGED notStore

InsertedIfAbsent(images, k, s) ==
    IF images[k] = NoState THEN [images EXCEPT ![k] = s] ELSE images

\* self.images.insert(target.clone(), state.clone())
Inserted(images, k, s) == [images EXCEPT ![k] = s]

\* ImagesState::update(target, state)
Update(k, s) ==
    /\ ~writing.active
    /\ store.some
    /\ store' = [store EXCEPT !.images = Inserted(store.images, k, s)]
    /\ ret' = Ret("update", "", TRUE, TRUE, NoStore, Absent, NoUpdate, NoStore)
    /\ pendingUpd' = [some |-> TRUE, key |-> k, state |-> s]
    /\ lastSaved' = NoStore
    /\ UNCHANGED <<fs, writing>>
    /\ UNCHANGED notStoreNorTasks

\* save when !Path::new(&self.state_file).exists(): fs::File::create(..).map(|_| ())
SaveCreate ==
    /\ ~writing.active
    /\ store.some
    /\ store.state_file \in Files
    /\ ~fs[store.state_file].exists
    /\ \E createOk \in BOOLEAN :
        /\ fs' = [fs EXCEPT ![store.state_file] = IF createOk THEN File(<<>>) ELSE Absent]
        /\ ret' = Ret("save", store.state_file, createOk, createOk, NoStore,
                      fs[store.state_file], pendingUpd, NoStore)
        /\ lastSaved' = IF createOk THEN store ELSE NoStore
    /\ pendingUpd' = NoUpdate
    /\ UNCHANGED <<store, writing>>
    /\ UNCHANGED notStore

\* save when the file exists: serde_cbor::to_vec(&self), then fs::write opens the
\* file, which truncates it (File::create), before it writes anything.
SaveOpen ==
    /\ ~writing.active
    /\ store.some
    /\ store.state_file \in Files
    /\ fs[store.state_file].exists
    /\ \E order \in Orders(store.images), openOk \in BOOLEAN :
        IF openOk
        THEN /\ fs' = [fs EXCEPT ![store.state_file] = File(<<>>)]
             /\ writing' = [active |-> TRUE, path |-> store.state_file,
                            old |-> fs[store.state_file], buf |-> Encode(store, order)]
             /\ ret' = Running
             /\ UNCHANGED pendingUpd
        ELSE /\ ret' = Ret("save", store.state_file, FALSE, FALSE, NoStore,
                           fs[store.state_file], pendingUpd, NoStore)
             /\ pendingUpd' = NoUpdate
             /\ UNCHANGED <<fs, writing>>
    /\ lastSaved' = NoStore
    /\ UNCHANGED store
    /\ UNCHANGED notStore

\* What write_all left in the file when it stopped after n items of buf.
Written(buf, n) == SubSeq(buf, 1, n)

\* fs::write goes on: write_all(contents) writes all of buf, or fails part-way.
SaveWrite ==
    /\ writing.active
    /\ \E n \in 0..Len(writing.buf) :
        LET done == (n = Len(writing.buf)) IN
        /\ fs' = [fs EXCEPT ![writing.path] = File(Written(writing.buf, n))]
        /\ ret' = Ret("save", writing.path, done, done, NoStore, writing.old,
                      pendingUpd, NoStore)
        /\ lastSaved' = IF done THEN store ELSE NoStore
    /\ writing' = NotWriting
    /\ pendingUpd' = NoUpdate
    /\ UNCHANGED store
    /\ UNCHANGED notStore

NextStore ==
    \/ Default
    \/ \E p \in Paths : TryFromPathMissing(p)
    \/ \E p \in Paths : TryFromPathExisting(p)
    \/ \E k \in Keys, s \in States : Update(k, s) /\ UNCHANGED taskVars
    \/ SaveCreate
    \/ SaveOpen
    \/ SaveWrite

\* mv p q, by the user between two runs of the program.
MoveFile(p, q) ==
    /\ ~writing.active
    /\ fs[p].exists
    /\ p # q
    /\ fs' = [fs EXCEPT ![p] = Absent, ![q] = fs[p]]
    /\ ret' = Ret("mv", q, TRUE, TRUE, NoStore, fs[p], NoUpdate, NoStore)
    /\ pendingUpd' = NoUpdate
    /\ lastSaved' = NoStore
    /\ UNCHANGED <<store, writing>>
    /\ UNCHANGED notStore

\* The store over a state file that is moved: loads and saves at either path.
NextMove ==
    \/ \E p, q \in Files : MoveFile(p, q)
    \/ \E p \in Files : TryFromPathMissing(p)
    \/ \E p \in Files : TryFromPathExisting(p)
    \/ Update("t1", "s1") /\ UNCHANGED taskVars
    \/ SaveCreate
    \/ SaveOpen
    \/ SaveWrite

(***************************************************************************)
(* Image state store: properties                                           *)
(***************************************************************************)

\* C6: when save returned Ok right after update(target, state), the state file
\* decodes to a map that holds target -> state, whether or not the file existed
\* when save was called.
C6_SavedUpdateOnDisk ==
    (ret.op = "save" /\ ret.ok /\ ret.upd.some)
        => LET d == Decode(fs[ret.path].bytes) IN
           /\ fs[ret.path].exists
           /\ d.ok
           /\ d.value.images[ret.upd.key] = ret.upd.state

\* C7: save is atomic: while save is writing, and after a save that failed, the
\* state file holds the complete previous encoding or the complete new one.
C7_SaveAtomic ==
    /\ (writing.active /\ Decode(writing.old.bytes).ok)
        => fs[writing.path] \in {writing.old, File(writing.buf)}
    /\ (ret.op = "save" /\ ~ret.ok /\ Decode(ret.before.bytes).ok)
        => fs[ret.path] = ret.before

\* C8: try_from_path on the state file right after save of S returned Ok yields,
\* when the file can be read, a state whose images are those of S.
C8_SaveLoadRoundTrip ==
    (/\ ret.op = "try_from_path"
     /\ ret.afterSave.some
     /\ ret.path = ret.afterSave.state_file
     /\ ret.io)
        => (ret.ok /\ ret.value.images = ret.afterSave.images)

\* C9 as stated: on a path without a file try_from_path creates the file and
\* returns Ok with an empty map; on a path with a file it leaves the file as it
\* is and returns what the contents decode to.
C9_LoadCreatesOrDecodes ==
    ret.op = "try_from_path"
        => IF ~ret.before.exists
           THEN /\ fs[ret.path].exists
                /\ ret.ok
                /\ ret.value.some
                /\ ret.value.images = EmptyImages
           ELSE /\ fs[ret.path] = ret.before
                /\ ret.ok = Decode(ret.before.bytes).ok
                /\ ret.value = Decode(ret.before.bytes).value

\* C9 as amended: the same, unless the file system call (File::create, fs::read)
\* fails: then try_from_path returns an error and no state, and the path holds
\* what it held.
C9_LoadCreatesOrDecodesUnlessIoFails ==
    ret.op = "try_from_path"
        => IF ~ret.io
           THEN ~ret.ok /\ ~ret.value.some /\ fs[ret.path] = ret.before
           ELSE IF ~ret.before.exists
           THEN /\ fs[ret.path] = File(<<>>)
                /\ ret.ok
                /\ ret.value = ImagesState(EmptyImages, ret.path)
                /\ store = ret.value
           ELSE /\ fs[ret.path] = ret.before
                /\ ret.ok = Decode(ret.before.bytes).ok
                /\ ret.value = Decode(ret.before.bytes).value
                /\ (ret.ok => store = ret.value)

\* try_from_path created the state file, after an earlier attempt had failed to.
C9_Witness ==
    /\ ret.op = "try_from_path"
    /\ ~ret.before.exists
    /\ ret.ok
    /\ fs[ret.path] = File(<<>>)
    /\ store = ImagesState(EmptyImages, ret.path)

\* C10: try_from_path on a file whose bytes do not decode (they are the encoding of
\* no ImagesState, in no iteration order) returns an error and no ImagesState, and
\* leaves the file as it is.
C10_CorruptFileIsError ==
    (/\ ret.op = "try_from_path"
     /\ ret.before.exists
     /\ \A st \in [some : {TRUE}, images : ImageMaps, state_file : Files] :
            \A o \in Orders(st.images) : ret.before.bytes # Encode(st, o))
        => /\ ~ret.ok
           /\ ~ret.value.some
           /\ fs[ret.path] = ret.before

\* try_from_path was given a file that a failed save had left partly written.
C10_Witness ==
    /\ ret.op = "try_from_path"
    /\ ret.before.exists
    /\ Len(ret.before.bytes) >= 4
    /\ ~Decode(ret.before.bytes).ok
    /\ ret.io
    /\ ~ret.ok

\* C23: a state file this store left on disk is loadable: try_from_path on a file
\* that exists, that the store wrote (it is not the foreign file of the initial
\* state) and that can be read returns Ok.
C23_LeftFileLoadable ==
    (/\ ret.op = "try_from_path"
     /\ ret.before.exists
     /\ ret.before.bytes # <<Junk>>
     /\ ret.io)
        => ret.ok

\* C24: the state try_from_path(p) returned with Ok has state_file = p, and it is
\* the store's state, so that a later save writes to p.
C24_LoadedFromIsSavedTo ==
    (ret.op = "try_from_path" /\ ret.ok)
        => /\ ret.value.state_file = ret.path
           /\ store.state_file = ret.path

(***************************************************************************)
(* Concurrent build tasks sharing the store                                *)
(***************************************************************************)

\* The number of build tasks (one per recipe and target) of a run.
NTasks == 2
TaskIds == 1..NTasks

NoWrite == [some |-> FALSE, task |-> 0, state |-> NoState]

\* Every task is about to build the image of its RecipeTarget; two tasks may have
\* the same one. The store holds what an earlier run left.
InitTasks ==
    /\ tasks \in [TaskIds -> [pc : {"start"}, key : Keys, state : {NoState}]]
    /\ lastWrite = [k \in Keys |-> NoWrite]
    /\ baseImages \in ImageMaps
    /\ fs = [p \in Files |-> Absent]
    /\ store = ImagesState(baseImages, DEFAULT_STATE_FILE)
    /\ ret = NoRet
    /\ writing = NotWriting
    /\ pendingUpd = NoUpdate
    /\ lastSaved = NoStore

\* The task's image was built and ImageState::new returned its state.
TaskBuilt(t, s) ==
    /\ tasks[t].pc = "start"
    /\ tasks' = [tasks EXCEPT ![t].pc = "built", ![t].state = s]
    /\ UNCHANGED <<lastWrite, baseImages>>
    /\ UNCHANGED storeVars
    /\ UNCHANGED notStoreNorTasks

\* The task calls update(target, state) on the shared store; update takes
\* &mut self and does not await, so no other task runs during the call.
TaskUpdate(t) ==
    /\ tasks[t].pc = "built"
    /\ Update(tasks[t].key, tasks[t].state)
    /\ tasks' = [tasks EXCEPT ![t].pc = "updated"]
    /\ lastWrite' = [lastWrite EXCEPT ![tasks[t].key] =
                        [some |-> TRUE, task |-> t, state |-> tasks[t].state]]
    /\ UNCHANGED baseImages

NextTasks ==
    \/ \E t \in TaskIds, s \in States : TaskBuilt(t, s)
    \/ \E t \in TaskIds : TaskUpdate(t)

\* C11: update is last-writer-wins per key: whatever the interleaving of the
\* tasks' updates, a key named by an update maps to the whole state the latest
\* update for it passed, every other key maps to what it mapped to before, and a
\* task that has its state can always make its update.
C11_LastWriterWins ==
    /\ \A k \in Keys :
        store.images[k] = (IF lastWrite[k].some THEN lastWrite[k].state ELSE baseImages[k])
    /\ \A t \in TaskIds : tasks[t].pc = "built" => ENABLED TaskUpdate(t)

\* Two tasks updated the same RecipeTarget with different states, task 2 first.
C11_Witness ==
    /\ tasks[1].key = tasks[2].key
    /\ tasks[1].pc = "updated"
    /\ tasks[2].pc = "updated"
    /\ tasks[1].state # tasks[2].state
    /\ lastWrite[tasks[1].key].task = 1
    /\ \E k \in Keys : k # tasks[1].key /\ baseImages[k] # NoState

(***************************************************************************)
(* Recipe metadata                                                         *)
(***************************************************************************)

Archs == {"amd64", "x86_64", "x86", "i386", "aarch64", "noarch"}

\* A toml value of MetadataRep.images and whether ImageTarget::try_from accepts it.
ImageValues == {[ok |-> TRUE, image |-> "centos", target |-> "rpm"],
                [ok |-> FALSE, image |-> "", target |-> ""]}

\* rpm: Option<RpmRep>, of which the release is looked at.
NoRpm == [some |-> FALSE, release |-> None]
RpmReps == {NoRpm, [some |-> TRUE, release |-> None], [some |-> TRUE, release |-> Some("3")]}

\* build_depends: Option<toml::Value>: absent, or a value Dependencies::try_from
\* accepts or rejects (depends, conflicts, provides and git are converted alike).
DependsValues == {"absent", "valid", "invalid"}

\* struct MetadataRep, as far as try_from and the derived names read it.
MetadataReps ==
    [name : {"", "hello"}, version : {"", "1.0"},
     images : {<<>>} \cup [1..1 -> ImageValues] \cup [1..2 -> ImageValues],
     arch : {None} \cup {Some(a) : a \in Archs},
     build_depends : DependsValues,
     rpm : RpmReps]

NotComputed == "<not computed>"
NoMetadata == [name |-> "", version |-> "", images |-> <<>>, arch |-> None, rpm |-> NoRpm]

InitMeta ==
    \E r \in MetadataReps :
        md = [rep |-> r, pc |-> "rep", meta |-> NoMetadata,
              deb_arch |-> NotComputed, rpm_arch |-> NotComputed, rpm_release |-> NotComputed]

\* impl TryFrom<MetadataRep> for Metadata: the conversions that can fail return
\* their error with `?`; every other field is moved as it is.
MetadataTryFrom(r) ==
    IF r.build_depends = "invalid" \/ \E i \in DOMAIN r.images : ~r.images[i].ok
    THEN [ok |-> FALSE, meta |-> NoMetadata]
    ELSE [ok |-> TRUE,
          meta |-> [name |-> r.name, version |-> r.version, images |-> r.images,
                    arch |-> r.arch, rpm |-> r.rpm]]

TryFromRep ==
    /\ md.pc = "rep"
    /\ LET c == MetadataTryFrom(md.rep) IN
       md' = [md EXCEPT !.pc = IF c.ok THEN "ok" ELSE "err", !.meta = c.meta]
    /\ UNCHANGED <<scriptVars, storeVars, taskVars, rpm, img, fmt>>

\* Metadata::deb_arch
DebArch(m) ==
    IF m.arch.some
    THEN CASE m.arch.v \in {"amd64", "x86_64"} -> "amd64"
           [] m.arch.v \in {"x86", "i386"} -> "i386"
           [] OTHER -> m.arch.v
    ELSE "all"

RpmArchLikeDeb(m) == DebArch(m)

\* Metadata::rpm_arch
RpmArch(m) ==
    IF m.arch.some
    THEN CASE m.arch.v \in {"amd64", "x86_64"} -> "x86_64"
           [] m.arch.v \in {"x86", "i386"} -> "x86"
           [] OTHER -> m.arch.v
    ELSE "noarch"

\* Metadata::rpm_release
RpmRelease(m) ==
    IF m.rpm.some /\ m.rpm.release.some THEN m.rpm.release.v ELSE "0"

CallDebArch ==
    /\ md.pc = "ok"
    /\ md' = [md EXCEPT !.deb_arch = DebArch(md.meta)]
    /\ UNCHANGED <<scriptVars, storeVars, taskVars, rpm, img, fmt>>

CallRpmArch ==
    /\ md.pc = "ok"
    /\ md' = [md EXCEPT !.rpm_arch = RpmArch(md.meta)]
    /\ UNCHANGED <<scriptVars, storeVars, taskVars, rpm, img, fmt>>

CallRpmRelease ==
    /\ md.pc = "ok"
    /\ md' = [md EXCEPT !.rpm_release = RpmRelease(md.meta)]
    /\ UNCHANGED <<scriptVars, storeVars, taskVars, rpm, img, fmt>>

NextMeta ==
    \/ TryFromRep
    \/ CallDebArch
    \/ CallRpmArch
    \/ CallRpmRelease

\* The rpm_arch and deb_arch the mapping of the data model gives for an arch.
ArchTable(arch) ==
    IF ~arch.some THEN [rpm |-> "noarch", deb |-> "all"]
    ELSE IF arch.v = "amd64" \/ arch.v = "x86_64" THEN [rpm |-> "x86_64", deb |-> "amd64"]
    ELSE IF arch.v = "x86" \/ arch.v = "i386" THEN [rpm |-> "x86", deb |-> "i386"]
    ELSE [rpm |-> arch.v, deb |-> arch.v]

\* C12: rpm_arch and deb_arch are the functions of Metadata.arch the mapping gives:
\* amd64|x86_64 -> x86_64/amd64, x86|i386 -> x86/i386, absent -> noarch/all, any
\* other string unchanged; the arch is the one of the MetadataRep.
C12_ArchMapping ==
    md.pc = "ok" =>
        /\ md.meta.arch = md.rep.arch
        /\ md.rpm_arch \in {NotComputed, ArchTable(md.rep.arch).rpm}
        /\ md.deb_arch \in {NotComputed, ArchTable(md.rep.arch).deb}

\* Both names were derived for arch amd64: they differ.
C12_Witness ==
    /\ md.pc = "ok"
    /\ md.rep.arch = Some("amd64")
    /\ md.rpm_arch = "x86_64"
    /\ md.deb_arch = "amd64"

\* C17: every Metadata a successful try_from made has a non-empty name, a
\* non-empty version and a non-empty list of images.
C17_MetadataInvariants ==
    md.pc = "ok" =>
        /\ md.meta.name # ""
        /\ md.meta.version # ""
        /\ md.meta.images # <<>>

(***************************************************************************)
(* build_rpm                                                               *)
(***************************************************************************)

\* The recipes build_rpm is run for: struct Metadata, as far as it reads it.
RpmMetadatas ==
    [name : {"hello"}, version : {"1.0"}, images : {<<>>},
     arch : {None, Some("amd64"), Some("aarch64")},
     rpm : RpmReps]

OutputDirs == {"out", "/home/user/output"}

\* Metadata::release: the release of the rpm block, "0" without one.
Release(m) ==
    IF m.rpm.some /\ m.rpm.release.some THEN m.rpm.release.v ELSE "0"

\* let name = [name, "-", version].join("")
PackageName(m) == m.name \o "-" \o m.version

BuildrootNameNoRelease(name, release, arch) == name \o "." \o arch

\* let buildroot_name = [&name, "-", &release, ".", &arch].join("")
BuildrootName(name, release, arch) == name \o "-" \o release \o "." \o arch

\* The steps of build_rpm that can fail, in the order of the code.
RpmSteps ==
    <<"create_dirs", "cp", "tar", "find_files", "find_dirs", "create_tar_archive",
      "copy_file_into", "extract", "rpmbuild", "download_files">>

\* rpmbuild runs before the spec archive is extracted.
StepAfterSwapped(step) ==
    LET order == <<"create_dirs", "cp", "tar", "find_files", "find_dirs", "create_tar_archive",
                   "copy_file_into", "rpmbuild", "extract", "download_files">>
        i == CHOOSE j \in DOMAIN order : order[j] = step
    IN IF i = Len(order) THEN "done" ELSE order[i + 1]

StepAfter(step) ==
    LET i == CHOOSE j \in DOMAIN RpmSteps : RpmSteps[j] = step IN
    IF i = Len(RpmSteps) THEN "done" ELSE RpmSteps[i + 1]

\* Characters, one-character strings; a text is a sequence of them.
AsciiWhitespace == {" ", "\t", "\n", "\f", "\r"}

\* Names of top-level entries of the install tree.
EntryNames == {<<"a">>, <<".", "a">>, <<".", ".", "a">>, <<"a", " ", "b">>}

\* The entries find lists, in the order it lists them.
EntryLists ==
    {<<>>} \cup {<<n>> : n \in EntryNames}
        \cup {<<<<"a">>, <<".", "a">>>>, <<<<"a", " ", "b">>, <<"a">>>>}

\* What find prints: one "./entry" line for each entry, after the line "."
\* of the directory itself when directories are listed.
FindStdout(entries, withDot) ==
    (IF withDot THEN << <<".", "\n">> >> ELSE <<>>)
        \o [i \in DOMAIN entries |-> <<".", "/">> \o entries[i] \o <<"\n">>]

RECURSIVE SplitWords(_, _, _)
SplitWords(text, cur, acc) ==
    IF text = <<>> THEN (IF cur = <<>> THEN acc ELSE Append(acc, cur))
    ELSE IF Head(text) \in AsciiWhitespace
         THEN SplitWords(Tail(text), <<>>, IF cur = <<>> THEN acc ELSE Append(acc, cur))
         ELSE SplitWords(Tail(text), Append(cur, Head(text)), acc)

\* str::split_ascii_whitespace
SplitAsciiWhitespace(text) == SplitWords(text, <<>>, <<>>)

\* Removes the prefix "./" only.
StripDotSlash(text, c) ==
    IF Len(text) >= 2 /\ text[1] = c /\ text[2] = "/" THEN Tail(Tail(text)) ELSE text

RECURSIVE TrimStartMatches(_, _)
\* str::trim_start_matches(char)
TrimStartMatches(text, c) ==
    IF text # <<>> /\ Head(text) = c THEN TrimStartMatches(Tail(text), c) ELSE text

\* The closure of .map(|out| ...) over the output of find.
FoundPaths(stdout) ==
    LET words == SelectSeq(SplitAsciiWhitespace(JoinEmpty(stdout)), LAMBDA w : w # <<>>)
    IN  [i \in DOMAIN words |-> TrimStartMatches(words[i], ".")]

NoPath == [some |-> FALSE, ok |-> FALSE, path |-> ""]

InitRpm ==
    \E m \in RpmMetadatas, o \in OutputDirs :
        rpm = [pc |-> "start", meta |-> m, output_dir |-> o, container_out_dir |-> "/tmp/o",
               name |-> "", release |-> "", arch |-> "", buildroot_name |-> "",
               source_tar |-> "", tmp_buildroot |-> "",
               ran |-> <<>>, cmds |-> <<>>, found_files |-> <<>>, found_dirs |-> <<>>,
               files |-> <<>>, dirs |-> <<>>, ret |-> NoPath]

\* The names build_rpm computes before its first step.
BuildRpmStart ==
    /\ rpm.pc = "start"
    /\ LET name == PackageName(rpm.meta)
           release == Release(rpm.meta)
           arch == RpmArch(rpm.meta)
           buildroot_name == BuildrootName(name, release, arch)
       IN rpm' = [rpm EXCEPT !.pc = RpmSteps[1], !.name = name, !.release = release,
                             !.arch = arch, !.buildroot_name = buildroot_name,
                             !.source_tar = name \o ".tar.gz",
                             !.tmp_buildroot = "/tmp/" \o buildroot_name]
    /\ UNCHANGED <<scriptVars, storeVars, taskVars, md, img, fmt>>

\* What a step asks of the container: the command or call with its paths, and
\* the directory it runs in ("" where the code gives None).
StepCmd(r, step) ==
    LET base == "/root/rpmbuild"
        specs == base \o "/SPECS"
        sources == base \o "/SOURCES"
        rpms == base \o "/RPMS"
        rpms_arch == rpms \o "/" \o r.arch
        srpms == base \o "/SRPMS"
        spec_file == r.meta.name \o ".spec"
        spec_tar_path == specs \o "/" \o r.name \o "-spec.tar"
    IN CASE step = "create_dirs" ->
              [cmd |-> "create_dirs " \o specs \o " " \o sources \o " " \o rpms \o " "
                           \o rpms_arch \o " " \o srpms, dir |-> ""]
         [] step = "cp" ->
              [cmd |-> "cp -rv " \o r.container_out_dir \o " " \o r.tmp_buildroot, dir |-> ""]
         [] step = "tar" ->
              [cmd |-> "tar -zcvf " \o sources \o "/" \o r.source_tar \o " .",
               dir |-> r.tmp_buildroot]
         [] step = "find_files" ->
              [cmd |-> "find . -type f -maxdepth 1 -name \"*\"", dir |-> r.container_out_dir]
         [] step = "find_dirs" ->
              [cmd |-> "find . -type d -maxdepth 1 -name \"*\"", dir |-> r.container_out_dir]
         [] step = "create_tar_archive" ->
              [cmd |-> "create_tar_archive ./" \o spec_file, dir |-> ""]
         [] step = "copy_file_into" ->
              [cmd |-> "copy_file_into " \o spec_tar_path, dir |-> ""]
         [] step = "extract" ->
              [cmd |-> "tar -xvf " \o spec_tar_path \o " -C " \o specs, dir |-> ""]
         [] step = "rpmbuild" ->
              [cmd |-> "rpmbuild -bb " \o specs \o "/" \o spec_file, dir |-> ""]
         [] OTHER ->
              [cmd |-> "download_files " \o rpms \o "/" \o r.arch \o " " \o r.output_dir,
               dir |-> ""]

\* A failing step is not the last thing that runs.
AfterStepIgnoresFailure(r, step, ok) ==
    [r EXCEPT !.ran = Append(@, [step |-> step, ok |-> ok]),
              !.cmds = Append(@, StepCmd(r, step)), !.pc = StepAfter(step)]

\* `?` after a step: its error is returned, else the next step is reached.
AfterStep(r, step, ok) ==
    IF ok
    THEN [r EXCEPT !.ran = Append(@, [step |-> step, ok |-> TRUE]),
                   !.cmds = Append(@, StepCmd(r, step)), !.pc = StepAfter(step)]
    ELSE [r EXCEPT !.ran = Append(@, [step |-> step, ok |-> FALSE]),
                   !.cmds = Append(@, StepCmd(r, step)), !.pc = "err",
                   !.ret = [some |-> TRUE, ok |-> FALSE, path |-> ""]]

RpmStep(step, ok) ==
    /\ rpm.pc = step
    /\ rpm' = AfterStep(rpm, step, ok)
    /\ UNCHANGED <<scriptVars, storeVars, taskVars, md, img, fmt>>

CreateDirs(ok) == RpmStep("create_dirs", ok)
CopyToTmpBuildroot(ok) == RpmStep("cp", ok)
TarSources(ok) == RpmStep("tar", ok)

FindFiles(ok, entries) ==
    /\ rpm.pc = "find_files"
    /\ rpm' = IF ok
              THEN [AfterStep(rpm, "find_files", TRUE) EXCEPT
                        !.found_files = entries,
                        !.files = FoundPaths(FindStdout(entries, FALSE))]
              ELSE AfterStep(rpm, "find_files", FALSE)
    /\ UNCHANGED <<scriptVars, storeVars, taskVars, md, img, fmt>>

FindDirs(ok, entries) ==
    /\ rpm.pc = "find_dirs"
    /\ rpm' = IF ok
              THEN [AfterStep(rpm, "find_dirs", TRUE) EXCEPT
                        !.found_dirs = entries,
                        !.dirs = FoundPaths(FindStdout(entries, TRUE))]
              ELSE AfterStep(rpm, "find_dirs", FALSE)
    /\ UNCHANGED <<scriptVars, storeVars, taskVars, md, img, fmt>>

CreateSpecTar(ok) == RpmStep("create_tar_archive", ok)
CopyFileInto(ok) == RpmStep("copy_file_into", ok)
ExtractSpec(ok) == RpmStep("extract", ok)
RpmBuild(ok) == RpmStep("rpmbuild", ok)

DownloadFiles(ok) ==
    /\ rpm.pc = "download_files"
    /\ rpm' = IF ok
              THEN [AfterStep(rpm, "download_files", TRUE) EXCEPT
                        !.ret = [some |-> TRUE, ok |-> TRUE,
                                 path |-> rpm.output_dir \o "/" \o rpm.buildroot_name \o ".rpm"]]
              ELSE AfterStep(rpm, "download_files", FALSE)
    /\ UNCHANGED <<scriptVars, storeVars, taskVars, md, img, fmt>>

NextRpm ==
    \/ BuildRpmStart
    \/ \E ok \in BOOLEAN : CreateDirs(ok)
    \/ \E ok \in BOOLEAN : CopyToTmpBuildroot(ok)
    \/ \E ok \in BOOLEAN : TarSources(ok)
    \/ \E ok \in BOOLEAN, es \in EntryLists : FindFiles(ok, es)
    \/ \E ok \in BOOLEAN, es \in EntryLists : FindDirs(ok, es)
    \/ \E ok \in BOOLEAN : CreateSpecTar(ok)
    \/ \E ok \in BOOLEAN : CopyFileInto(ok)
    \/ \E ok \in BOOLEAN : ExtractSpec(ok)
    \/ \E ok \in BOOLEAN : RpmBuild(ok)
    \/ \E ok \in BOOLEAN : DownloadFiles(ok)

\* The release of the claim: rpm.release when set, "0" when the rpm block or its
\* release is absent.
ReleaseOf(m) ==
    IF ~m.rpm.some THEN "0" ELSE IF ~m.rpm.release.some THEN "0" ELSE m.rpm.release.v

\* C13: when every step succeeded build_rpm returns
\* output_dir/{name}-{version}-{release}.{arch}.rpm with arch = rpm_arch() and
\* release = rpm.release or "0"; the same string without ".rpm" names the
\* staging directory under /tmp.
C13_ArtifactName ==
    /\ rpm.pc # "start" =>
          rpm.tmp_buildroot =
              "/tmp/" \o rpm.meta.name \o "-" \o rpm.meta.version \o "-"
                  \o ReleaseOf(rpm.meta) \o "." \o ArchTable(rpm.meta.arch).rpm
    /\ rpm.pc = "done" =>
          /\ rpm.ret.some /\ rpm.ret.ok
          /\ rpm.ret.path =
                 rpm.output_dir \o "/" \o rpm.meta.name \o "-" \o rpm.meta.version \o "-"
                     \o ReleaseOf(rpm.meta) \o "." \o ArchTable(rpm.meta.arch).rpm \o ".rpm"

\* The example of the claim: hello 1.0, arch aarch64, release 3.
C13_Witness ==
    /\ rpm.pc = "done"
    /\ rpm.meta.arch = Some("aarch64")
    /\ rpm.meta.rpm.release = Some("3")
    /\ rpm.output_dir = "out"
    /\ rpm.ret.path = "out/hello-1.0-3.aarch64.rpm"
    /\ rpm.tmp_buildroot = "/tmp/hello-1.0-3.aarch64"

\* C14: the steps run in the order of the code; a step that failed is the last one
\* that ran, build_rpm has then returned an error and no path; a path is returned
\* only after all ten steps succeeded.
C14_StepFailureAborts ==
    /\ Len(rpm.ran) <= Len(RpmSteps)
    /\ \A i \in DOMAIN rpm.ran : rpm.ran[i].step = RpmSteps[i]
    /\ \A i \in DOMAIN rpm.ran :
          ~rpm.ran[i].ok =>
              /\ i = Len(rpm.ran)
              /\ rpm.pc = "err"
              /\ rpm.ret = [some |-> TRUE, ok |-> FALSE, path |-> ""]
              /\ ~ENABLED NextRpm
    /\ (rpm.ret.some /\ rpm.ret.ok) =>
          /\ Len(rpm.ran) = Len(RpmSteps)
          /\ \A i \in DOMAIN rpm.ran : rpm.ran[i].ok
    /\ rpm.ret.path # "" => rpm.ret.ok

\* The extraction of the spec archive failed: seven steps ran before it, rpmbuild
\* and download_files did not.
C14_Witness ==
    /\ rpm.pc = "err"
    /\ Len(rpm.ran) = 8
    /\ rpm.ran[8] = [step |-> "extract", ok |-> FALSE]
    /\ rpm.ret.some /\ ~rpm.ret.ok

\* C21: the steps of build_rpm ask, in this order and each only after the one
\* before it succeeded, for: the directories SPECS, SOURCES, RPMS, RPMS/{arch} and
\* SRPMS under /root/rpmbuild; the copy of container_out_dir to
\* /tmp/{name}-{version}-{release}.{arch}; its tar into
\* SOURCES/{name}-{version}.tar.gz; the files, then the directories; the upload of
\* the spec tar; its extraction into SPECS; rpmbuild -bb SPECS/{name}.spec; the
\* download of RPMS/{arch}.
C21_StepOrder ==
    LET nv == rpm.meta.name \o "-" \o rpm.meta.version
        arch == ArchTable(rpm.meta.arch).rpm
        tmp == "/tmp/" \o nv \o "-" \o ReleaseOf(rpm.meta) \o "." \o arch
        want == <<"create_dirs /root/rpmbuild/SPECS /root/rpmbuild/SOURCES /root/rpmbuild/RPMS "
                      \o "/root/rpmbuild/RPMS/" \o arch \o " /root/rpmbuild/SRPMS",
                  "cp -rv " \o rpm.container_out_dir \o " " \o tmp,
                  "tar -zcvf /root/rpmbuild/SOURCES/" \o nv \o ".tar.gz .",
                  "find . -type f -maxdepth 1 -name \"*\"",
                  "find . -type d -maxdepth 1 -name \"*\"",
                  "create_tar_archive ./" \o rpm.meta.name \o ".spec",
                  "copy_file_into /root/rpmbuild/SPECS/" \o nv \o "-spec.tar",
                  "tar -xvf /root/rpmbuild/SPECS/" \o nv \o "-spec.tar -C /root/rpmbuild/SPECS",
                  "rpmbuild -bb /root/rpmbuild/SPECS/" \o rpm.meta.name \o ".spec",
                  "download_files /root/rpmbuild/RPMS/" \o arch \o " " \o rpm.output_dir>>
    IN /\ Len(rpm.cmds) = Len(rpm.ran)
       /\ Len(rpm.cmds) <= Len(want)
       /\ \A i \in DOMAIN rpm.cmds :
             /\ rpm.cmds[i].cmd = want[i]
             /\ i > 1 => rpm.ran[i - 1].ok
       /\ Len(rpm.cmds) >= 3 => rpm.cmds[3].dir = tmp
       /\ \A i \in DOMAIN rpm.ran :
             /\ rpm.ran[i].step = "rpmbuild" =>
                   \E j \in 1..(i - 1) : rpm.ran[j] = [step |-> "extract", ok |-> TRUE]
             /\ rpm.ran[i].step = "download_files" =>
                   \E j \in 1..(i - 1) : rpm.ran[j] = [step |-> "rpmbuild", ok |-> TRUE]

\* All ten steps of hello 1.0 for amd64 ran, the last being the download of
\* RPMS/x86_64.
C21_Witness ==
    /\ Len(rpm.cmds) = 10
    /\ rpm.meta.arch = Some("amd64")
    /\ rpm.output_dir = "out"
    /\ rpm.cmds[9].cmd = "rpmbuild -bb /root/rpmbuild/SPECS/hello.spec"
    /\ rpm.cmds[10].cmd = "download_files /root/rpmbuild/RPMS/x86_64 out"
    /\ rpm.pc = "done"

HasWhitespace(name) == \E i \in DOMAIN name : name[i] \in AsciiWhitespace

\* C15: every ./entry find printed is recorded as "entry", for every entry name,
\* also one that begins with a dot.
C15_DotSlashStripped ==
    /\ Len(rpm.ran) >= 4 /\ rpm.ran[4].ok => rpm.files = rpm.found_files
    /\ Len(rpm.ran) >= 5 /\ rpm.ran[5].ok =>
          \A i \in DOMAIN rpm.found_dirs :
              \E j \in DOMAIN rpm.dirs : rpm.dirs[j] = rpm.found_dirs[i]

\* C15, as the code has it: every ./entry whose name has no ASCII whitespace is
\* recorded with its leading dots removed and nothing else, "./entry" as "/entry"
\* and "./.entry" as "/.entry"; when no name has whitespace the records are these,
\* in the order of find.
C15_LeadingDotsStripped ==
    /\ Len(rpm.ran) >= 4 /\ rpm.ran[4].ok =>
          /\ \A i \in DOMAIN rpm.found_files :
                ~HasWhitespace(rpm.found_files[i]) =>
                    \E j \in DOMAIN rpm.files : rpm.files[j] = <<"/">> \o rpm.found_files[i]
          /\ (\A i \in DOMAIN rpm.found_files : ~HasWhitespace(rpm.found_files[i])) =>
                rpm.files = [i \in DOMAIN rpm.found_files |-> <<"/">> \o rpm.found_files[i]]
          /\ \A j \in DOMAIN rpm.files : rpm.files[j] = <<>> \/ Head(rpm.files[j]) # "."
    /\ Len(rpm.ran) >= 5 /\ rpm.ran[5].ok =>
          /\ \A i \in DOMAIN rpm.found_dirs :
                ~HasWhitespace(rpm.found_dirs[i]) =>
                    \E j \in DOMAIN rpm.dirs : rpm.dirs[j] = <<"/">> \o rpm.found_dirs[i]
          /\ (\A i \in DOMAIN rpm.found_dirs : ~HasWhitespace(rpm.found_dirs[i])) =>
                rpm.dirs = <<<<>>>> \o [i \in DOMAIN rpm.found_dirs |-> <<"/">> \o rpm.found_dirs[i]]

\* find listed the file a and the hidden file .a: recorded as /a and /.a.
C15_Witness ==
    /\ Len(rpm.ran) >= 5 /\ rpm.ran[5].ok
    /\ rpm.found_files = <<<<"a">>, <<".", "a">>>>
    /\ rpm.files = <<<<"/", "a">>, <<"/", ".", "a">>>>
    /\ rpm.found_dirs = <<<<".", "a">>>>
    /\ rpm.dirs = <<<<>>, <<"/", ".", "a">>>>

(***************************************************************************)
(* ImageState::new                                                         *)
(***************************************************************************)

Oses == {"Centos 8", "Debian 10"}
Deps == {"gcc", "make"}

\* The arguments of ImageState::new; the RecipeTarget as far as new reads it.
NewArgs ==
    [id : {"sha256:aa", "sha256:bb"},
     target : [image : Images, os : {None} \cup {Some(o) : o \in Oses}],
     tag : {"latest", "1.0"}, timestamp : {0, 1600000000}, deps : SUBSET Deps, simple : BOOLEAN]

NoImageState ==
    [id |-> "", image |-> "", tag |-> "", os |-> "", timestamp |-> 0,
     details |-> "", deps |-> {}, simple |-> FALSE]
NoNew == [some |-> FALSE, ok |-> FALSE, state |-> NoImageState]

\* What inspecting an image can end in.
InspectOutcomes == {"ok", "not found", "connection error"}
NoExists == [some |-> FALSE, inspect |-> "ok", value |-> FALSE]

InitImg ==
    \E a \in NewArgs :
        img = [pc |-> "start", args |-> a, os |-> "", calls |-> <<>>, ret |-> NoNew,
               exists |-> NoExists]

\* RecipeTarget::image_os
ImageOs(t) == t.os

\* The error of a call is dropped.
CalledIgnoresFailure(i, call, ok, next) ==
    [i EXCEPT !.calls = Append(@, [call |-> call, ok |-> ok]), !.pc = next]

\* `?` on a call of the docker client: Err is returned from new.
Called(i, call, ok, next) ==
    [i EXCEPT !.calls = Append(@, [call |-> call, ok |-> ok]),
              !.pc = IF ok THEN next ELSE "err",
              !.ret = IF ok THEN @ ELSE [some |-> TRUE, ok |-> FALSE, state |-> NoImageState]]

\* if let Some(os) = target.image_os() { os.clone() }
NewDeclaredOs ==
    /\ img.pc = "start"
    /\ ImageOs(img.args.target).some
    /\ img' = [img EXCEPT !.os = ImageOs(img.args.target).v, !.pc = "inspect"]
    /\ UNCHANGED <<scriptVars, storeVars, taskVars, md, rpm, fmt>>

\* else { find_os(id, docker).await? }
NewFindOs(ok, found) ==
    /\ img.pc = "start"
    /\ ~ImageOs(img.args.target).some
    /\ img' = [Called(img, "find_os", ok, "inspect") EXCEPT !.os = IF ok THEN found ELSE @]
    /\ UNCHANGED <<scriptVars, storeVars, taskVars, md, rpm, fmt>>

\* docker.images().get(id).inspect().await?, then Ok(ImageState { .. })
NewInspect(ok) ==
    /\ img.pc = "inspect"
    /\ img' = IF ok
              THEN [Called(img, "inspect", TRUE, "done") EXCEPT
                       !.ret = [some |-> TRUE, ok |-> TRUE,
                                state |-> [id |-> img.args.id,
                                           image |-> img.args.target.image,
                                           tag |-> img.args.tag,
                                           os |-> img.os,
                                           timestamp |-> img.args.timestamp,
                                           details |-> "details of " \o img.args.id,
                                           deps |-> {d : d \in img.args.deps},
                                           simple |-> img.args.simple]]]
              ELSE Called(img, "inspect", FALSE, "done")
    /\ UNCHANGED <<scriptVars, storeVars, taskVars, md, rpm, fmt>>

IsOkOrUnreachable(outcome) == outcome \in {"ok", "connection error"}

\* Result::is_ok
IsOk(outcome) == outcome = "ok"

\* ImageState::exists, on the state new returned.
Exists(outcome) ==
    /\ img.pc = "done"
    /\ img.ret.ok
    /\ img' = [img EXCEPT !.exists = [some |-> TRUE, inspect |-> outcome, value |-> IsOk(outcome)]]
    /\ UNCHANGED <<scriptVars, storeVars, taskVars, md, rpm, fmt>>

NextImg ==
    \/ \E outcome \in InspectOutcomes : Exists(outcome)
    \/ NewDeclaredOs
    \/ \E ok \in BOOLEAN, found \in Oses : NewFindOs(ok, found)
    \/ \E ok \in BOOLEAN : NewInspect(ok)

\* C20: find_os is called only for a target that declares no OS, and then before
\* the inspect; a declared OS is the one stored. A failed find_os or inspect makes
\* new return an error without an ImageState, and nothing more is done; a returned
\* state holds the id, the target's image, the tag, timestamp, simple flag and deps
\* given, and was made after a successful inspect.
C20_ImageStateNew ==
    /\ \A i \in DOMAIN img.calls :
          img.calls[i].call = "find_os" => (i = 1 /\ ~img.args.target.os.some)
    /\ (img.pc \in {"inspect", "done"} /\ img.args.target.os.some) =>
          img.os = img.args.target.os.v
    /\ (img.pc \in {"inspect", "done"} /\ ~img.args.target.os.some) =>
          (img.calls # <<>> /\ img.calls[1] = [call |-> "find_os", ok |-> TRUE])
    /\ \A i \in DOMAIN img.calls :
          ~img.calls[i].ok =>
              /\ i = Len(img.calls)
              /\ img.ret = [some |-> TRUE, ok |-> FALSE, state |-> NoImageState]
              /\ ~ENABLED NextImg
    /\ img.ret.some /\ img.ret.ok =>
          /\ img.calls[Len(img.calls)] = [call |-> "inspect", ok |-> TRUE]
          /\ img.ret.state.id = img.args.id
          /\ img.ret.state.image = img.args.target.image
          /\ img.ret.state.tag = img.args.tag
          /\ img.ret.state.timestamp = img.args.timestamp
          /\ img.ret.state.simple = img.args.simple
          /\ img.ret.state.deps = img.args.deps
          /\ img.ret.state.os = img.os
    /\ ~(img.ret.some /\ img.ret.ok) => img.ret.state = NoImageState

\* The target declares no OS, the detection succeeded and the inspect failed.
C20_Witness ==
    /\ ~img.args.target.os.some
    /\ img.calls = <<[call |-> "find_os", ok |-> TRUE], [call |-> "inspect", ok |-> FALSE]>>
    /\ img.pc = "err"
    /\ img.ret.some /\ ~img.ret.ok
    /\ img.args.deps = Deps

\* C22: exists returns true iff the inspect of the image id succeeded; a failed
\* inspect, be it a missing image or a runtime that cannot be reached, gives false,
\* and the state exists was called on is the one new returned.
C22_ExistsIffInspectOk ==
    img.exists.some =>
        /\ img.exists.value \in BOOLEAN
        /\ img.exists.value <=> img.exists.inspect = "ok"
        /\ img.exists.inspect \in {"not found", "connection error"} => ~img.exists.value
        /\ img.ret.some /\ img.ret.ok

\* The runtime could not be reached: exists returned false.
C22_Witness ==
    /\ img.exists = [some |-> TRUE, inspect |-> "connection error", value |-> FALSE]
    /\ img.ret.ok

(***************************************************************************)
(* FmtFilter                                                               *)
(***************************************************************************)

\* The longest filter string of the model.
MaxFilterLen == 3

\* The characters of the filter strings.
FilterChars == {"d", "D", "f", "F", "l", "L", "s", "S", "x", "1"}

KeepCase(c) == c

\* char::to_ascii_lowercase
ToAsciiLowercase(c) ==
    CASE c = "D" -> "d" [] c = "F" -> "f" [] c = "L" -> "l" [] c = "S" -> "s"
      [] c = "X" -> "x" [] OTHER -> c

\* FmtFilter::default()
DefaultFilter ==
    [hide_date |-> FALSE, hide_fields |-> FALSE, hide_level |-> FALSE, hide_spans |-> FALSE]

RECURSIVE ForEachChar(_, _)
\* filter_str.chars().for_each(|c| match c.to_ascii_lowercase() { .. })
ForEachChar(text, filter) ==
    IF text = <<>> THEN filter
    ELSE LET c == ToAsciiLowercase(Head(text))
             next == CASE c = "d" -> [filter EXCEPT !.hide_date = TRUE]
                       [] c = "f" -> [filter EXCEPT !.hide_fields = TRUE]
                       [] c = "l" -> [filter EXCEPT !.hide_level = TRUE]
                       [] c = "s" -> [filter EXCEPT !.hide_spans = TRUE]
                       [] OTHER -> filter
         IN ForEachChar(Tail(text), next)

InitFmt ==
    \E n \in 0..MaxFilterLen : \E text \in [1..n -> FilterChars] :
        fmt = [text |-> text, made |-> FALSE, filter |-> DefaultFilter]

\* impl From<&str> for FmtFilter
FmtFilterFrom ==
    /\ ~fmt.made
    /\ fmt' = [fmt EXCEPT !.made = TRUE, !.filter = ForEachChar(fmt.text, DefaultFilter)]
    /\ UNCHANGED <<scriptVars, storeVars, taskVars, md, rpm, img>>

\* C25: FmtFilter::from sets hide_date, hide_fields, hide_level and hide_spans to
\* true iff the string holds d, f, l, s in either case; nothing else in the string
\* matters, and the empty string gives four flags that are false.
C25_FlagsIffLetters ==
    LET has(S) == \E i \in DOMAIN fmt.text : fmt.text[i] \in S IN
    /\ fmt.made =>
          /\ fmt.filter.hide_date <=> has({"d", "D"})
          /\ fmt.filter.hide_fields <=> has({"f", "F"})
          /\ fmt.filter.hide_level <=> has({"l", "L"})
          /\ fmt.filter.hide_spans <=> has({"s", "S"})
          /\ fmt.text = <<>> => fmt.filter = [hide_date |-> FALSE, hide_fields |-> FALSE,
                                              hide_level |-> FALSE, hide_spans |-> FALSE]
    /\ ~fmt.made => ENABLED FmtFilterFrom

\* "Sxd": the spans and the date are hidden, the fields and the level are not.
C25_Witness ==
    /\ fmt.made
    /\ fmt.text = <<"S", "x", "d">>
    /\ fmt.filter = [hide_date |-> TRUE, hide_fields |-> FALSE,
                     hide_level |-> FALSE, hide_spans |-> TRUE]

\* No task, while another component is looked at.
IdleTasks ==
    /\ tasks = [t \in TaskIds |-> [pc |-> "start", key |-> "t1", state |-> NoState]]
    /\ lastWrite = [k \in Keys |-> NoWrite]
    /\ baseImages = EmptyImages

\* No recipe metadata, while another component is looked at.
IdleMeta ==
    md = [rep |-> [name |-> "", version |-> "", images |-> <<>>, arch |-> None,
                   build_depends |-> "absent", rpm |-> NoRpm],
          pc |-> "rep", meta |-> NoMetadata,
          deb_arch |-> NotComputed, rpm_arch |-> NotComputed, rpm_release |-> NotComputed]
\* No package is built, while another component is looked at.
IdleRpm ==
    rpm = [pc |-> "idle", meta |-> NoMetadata, output_dir |-> "", container_out_dir |-> "",
           name |-> "", release |-> "", arch |-> "", buildroot_name |-> "",
           source_tar |-> "", tmp_buildroot |-> "",
           ran |-> <<>>, cmds |-> <<>>, found_files |-> <<>>, found_dirs |-> <<>>,
           files |-> <<>>, dirs |-> <<>>, ret |-> NoPath]
\* No filter string, while another component is looked at.
IdleFmt == fmt = [text |-> <<>>, made |-> TRUE, filter |-> DefaultFilter]

\* No image state is made, while another component is looked at.
IdleImg ==
    img = [pc |-> "idle",
           args |-> [id |-> "", target |-> [image |-> "", os |-> None], tag |-> "",
                     timestamp |-> 0, deps |-> {}, simple |-> FALSE],
           os |-> "", calls |-> <<>>, ret |-> NoNew, exists |-> NoExists]

\* The script runner at rest, while the store is looked at.
IdleScripts ==
    /\ target = [image |-> "centos", build_target |-> "rpm"]
    /\ spc = "start"
    /\ scripts = [configure |-> "unread", build |-> "unread", install |-> "unread"]
    /\ nsteps = 0
    /\ idx = 0
    /\ last = NoStep
    /\ log = <<>>
    /\ inputs = PlainInputs
    /\ decl = NoDecl
    /\ opts = NoOpts

\* No store and no state file, while the script runner is looked at.
IdleStore ==
    /\ fs = [p \in Files |-> Absent]
    /\ store = NoStore
    /\ ret = NoRet
    /\ writing = NotWriting
    /\ pendingUpd = NoUpdate
    /\ lastSaved = NoStore

\* The script runner of one job.
ScriptsInit == InitScripts /\ IdleStore /\ IdleTasks /\ IdleMeta /\ IdleRpm /\ IdleImg /\ IdleFmt
SpecScripts == ScriptsInit /\ [][NextScripts]_vars

\* The scripts of a recipe that declares working dirs and shells.
OptsInit == InitOpts /\ IdleStore /\ IdleTasks /\ IdleMeta /\ IdleRpm /\ IdleImg /\ IdleFmt
SpecOpts == OptsInit /\ [][NextScripts]_vars

\* The image state store of one run.
StoreInit == InitStore /\ IdleScripts /\ IdleTasks /\ IdleMeta /\ IdleRpm /\ IdleImg /\ IdleFmt
SpecStore == StoreInit /\ [][NextStore]_vars
SpecMove == StoreInit /\ [][NextMove]_vars

\* The build tasks of one run and the store they share.
TasksInit == InitTasks /\ IdleScripts /\ IdleMeta /\ IdleRpm /\ IdleImg /\ IdleFmt
SpecTasks == TasksInit /\ [][NextTasks]_vars

\* The metadata of one recipe.
MetaInit == InitMeta /\ IdleScripts /\ IdleStore /\ IdleTasks /\ IdleRpm /\ IdleImg /\ IdleFmt
SpecMeta == MetaInit /\ [][NextMeta]_vars

\* One run of build_rpm.
RpmInit == InitRpm /\ IdleScripts /\ IdleStore /\ IdleTasks /\ IdleMeta /\ IdleImg /\ IdleFmt
SpecRpm == RpmInit /\ [][NextRpm]_vars

\* One call of ImageState::new.
ImgInit == InitImg /\ IdleScripts /\ IdleStore /\ IdleTasks /\ IdleMeta /\ IdleRpm /\ IdleFmt
SpecImg == ImgInit /\ [][NextImg]_vars

\* One call of FmtFilter::from.
FmtInit ==
    InitFmt /\ IdleScripts /\ IdleStore /\ IdleTasks /\ IdleMeta /\ IdleRpm /\ IdleImg
SpecFmt == FmtInit /\ [][FmtFilterFrom]_vars

====
